---- MODULE Spec2Model ----
(***************************************************************************)
(* A model of the maintainer helper scripts of all-repos-self:             *)
(*   - tasks/helper.py: GH.open_prs (a cached property) and GH._parallel,  *)
(*     the fan-out of one map_fn call per repository name onto a           *)
(*     ThreadPoolExecutor(max_workers=12) and the fan-in over              *)
(*     as_completed();                                                     *)
(*   - tasks/install_uv_python.py: run(), a fixed sequence of check_call   *)
(*     commands.                                                           *)
(* Futures of one identifier behave alike (map_fn is a function of the     *)
(* identifier), so a future is represented by its identifier and a group   *)
(* of futures by a count per identifier.                                   *)
(***************************************************************************)
EXTENDS Naturals, Sequences, FiniteSets

VARIABLES
    \* ---- inputs of GH._parallel, fixed during a behaviour
    data,            \* repo_names: the identifiers, in submission order
    lazy,            \* TRUE: func is a generator function (as _get_pulls)
    fails,           \* the identifiers for which map_fn fails
    \* ---- the GH instance and its caller
    cache,           \* the cached_property slot of open_prs
    reads,           \* reads of github.open_prs started so far
    fetches,         \* calls of _parallel started so far
    lastRead,        \* how the last finished read of open_prs ended
    \* ---- one call of _parallel
    pc,              \* position of the calling thread
    nsub,            \* futures submitted so far (index into data)
    queue,           \* the executor's work queue (submitted, not started)
    threads,         \* worker threads the executor has spawned
    running,         \* per identifier, func calls executing on a worker
    finished,        \* futures done before as_completed() and not yet yielded
    fifo,            \* waiter.finished_futures: done after as_completed() began
    nyield,          \* futures as_completed() has yielded
    result,          \* the local list `result`
    error,           \* the identifier whose exception left the loop, or "none"
    \* ---- history of the current call
    compOrder,       \* identifiers in the order their futures completed
    nInitial,        \* how many futures were done when as_completed() began
    calls,           \* per identifier, the invocations of func
    failOrder,       \* identifiers in the order their map_fn failures occurred
    callerProduced,  \* identifiers whose items were produced in the caller
    \* ---- install_uv_python.run
    istep,           \* index of the next command of run()
    ifailed,         \* a check_call raised CalledProcessError
    links,           \* dest / name -> what the symlink points to
    installed,       \* interpreters `uv python install` has installed
    executed         \* indices of the commands that ran successfully

ghvars == <<data, lazy, fails, cache, reads, fetches, lastRead, pc, nsub, queue,
            threads, running, finished, fifo, nyield, result, error, compOrder,
            nInitial, calls, failOrder, callerProduced>>
instvars == <<istep, ifailed, links, installed, executed>>
vars == <<ghvars, instvars>>

\* ------------------------------------------------------------------ bounds
MaxData == 3
BigData == 13
MaxReads == 2

\* ThreadPoolExecutor(max_workers=12)
MaxWorkers == 12

\* ----------------------------------------------------------------- helpers
Ids == {"a", "b", "c"}

Range(s) == {s[i] : i \in DOMAIN s}
CountIn(s, x) == Cardinality({i \in DOMAIN s : s[i] = x})
SameBag(s, t) == \A x \in Range(s) \cup Range(t) : CountIn(s, x) = CountIn(t, x)
Zero == [d \in Ids |-> 0]
Total(f) == f["a"] + f["b"] + f["c"]
Reverse(s) == [i \in 1..Len(s) |-> s[Len(s) + 1 - i]]
RemoveAt(s, i) == SubSeq(s, 1, i - 1) \o SubSeq(s, i + 1, Len(s))

\* map_fn under test: "a" yields two items, "b" one, "c" none
ItemCount(d) == CASE d = "a" -> 2 [] d = "b" -> 1 [] OTHER -> 0
Items(d) == [k \in 1..ItemCount(d) |-> <<d, k>>]

RECURSIVE Flatten(_)
Flatten(s) == IF s = <<>> THEN <<>> ELSE Items(Head(s)) \o Flatten(Tail(s))

Unset == [set |-> FALSE, value |-> <<>>]
NoRead == [kind |-> "none", value |-> <<>>, err |-> "none"]

\* ------------------------------------------------------ GH: initial states
\* repo_names: up to MaxData names in any order, or BigData copies of one
\* name (more futures than the pool has workers)
DataChoices ==
    UNION {[1..n -> Ids] : n \in 0..MaxData}
        \cup {[i \in 1..BigData |-> d] : d \in Ids}

CallLocals0 ==
    /\ nsub = 0 /\ queue = <<>> /\ threads = 0 /\ running = Zero
    /\ finished = Zero /\ fifo = <<>> /\ nyield = 0 /\ result = <<>>
    /\ error = "none" /\ compOrder = <<>> /\ nInitial = 0 /\ calls = Zero
    /\ failOrder = <<>> /\ callerProduced = {}

\* GH(): nothing cached, no read of open_prs yet
InitGH ==
    /\ data \in DataChoices
    /\ lazy \in BOOLEAN
    /\ fails \in SUBSET Range(data)
    /\ cache = Unset /\ reads = 0 /\ fetches = 0 /\ lastRead = NoRead
    /\ pc = "idle"
    /\ CallLocals0

\* ------------------------------------------------- GH._parallel: the pool
\* executor.submit -> _adjust_thread_count: one more worker thread while
\* fewer than max_workers exist
AdjustThreadCountUnbounded(t) == t + 1
AdjustThreadCount(t) == IF t < MaxWorkers THEN t + 1 ELSE t

\* executor.__exit__ -> shutdown(wait=True): joins the workers, which leave
\* only when the work queue is drained; nothing is cancelled
ShutdownNoWait == TRUE
ShutdownDone == queue = <<>> /\ Total(running) = 0

\* future.result() re-raises what func raised on the worker; a generator
\* function raises nothing when called
ResultSwallows(d) == FALSE
ResultRaises(d) == ~lazy /\ d \in fails

\* result.extend(data) consumes a generator in the calling thread; its
\* failure surfaces there
ExtendRaises(d) == lazy /\ d \in fails

\* result.extend(data)
ExtendOverwrite(res, d) == Items(d)
ExtendReversed(res, d) == res \o Reverse(Items(d))
Extend(res, d) == res \o Items(d)

\* as_completed: the position in waiter.finished_futures of the future it
\* yields next (the list is reversed and popped from its end: the oldest)
YieldNewest(q) == Len(q)
YieldIndex(q) == 1

\* as_completed: futures already done when it was called come first, in the
\* iteration order of a set; the others in the order they completed
Candidates ==
    IF Total(finished) > 0
    THEN {[d |-> d, early |-> TRUE] : d \in {x \in Ids : finished[x] > 0}}
    ELSE IF fifo # <<>>
         THEN {[d |-> fifo[YieldIndex(fifo)], early |-> FALSE]}
         ELSE {}

\* line 49, one step of the dict comprehension: executor.submit(func, d)
Submit ==
    /\ pc = "submit"
    /\ nsub < Len(data)
    /\ nsub' = nsub + 1
    /\ queue' = Append(queue, data[nsub + 1])
    /\ threads' = AdjustThreadCount(threads)
    /\ UNCHANGED <<data, lazy, fails, cache, reads, fetches, lastRead, pc,
                   running, finished, fifo, nyield, result, error, compOrder,
                   nInitial, calls, failOrder, callerProduced>>
    /\ UNCHANGED instvars

\* a worker thread takes the oldest work item and calls func(d)
Start ==
    /\ pc \in {"submit", "iterate", "exit"}
    /\ queue # <<>>
    /\ Total(running) < threads
    /\ queue' = Tail(queue)
    /\ running' = [running EXCEPT ![Head(queue)] = @ + 1]
    /\ calls' = [calls EXCEPT ![Head(queue)] = @ + 1]
    /\ UNCHANGED <<data, lazy, fails, cache, reads, fetches, lastRead, pc,
                   nsub, threads, finished, fifo, nyield, result, error,
                   compOrder, nInitial, failOrder, callerProduced>>
    /\ UNCHANGED instvars

\* func(d) ends on its worker (returns its value or raises): the future is
\* done and the waiter of as_completed, if installed, is told
Finish(d) ==
    /\ running[d] > 0
    /\ running' = [running EXCEPT ![d] = @ - 1]
    /\ compOrder' = Append(compOrder, d)
    /\ failOrder' = IF ResultRaises(d) THEN Append(failOrder, d) ELSE failOrder
    /\ finished' = IF pc = "submit" THEN [finished EXCEPT ![d] = @ + 1]
                   ELSE finished
    /\ fifo' = IF pc = "iterate" THEN Append(fifo, d) ELSE fifo
    /\ UNCHANGED <<data, lazy, fails, cache, reads, fetches, lastRead, pc,
                   nsub, queue, threads, nyield, result, error, nInitial,
                   calls, callerProduced>>
    /\ UNCHANGED instvars

\* line 50: the comprehension is over and as_completed(future_to_url) starts:
\* it installs its waiter and notes the futures that are already done
AsCompleted ==
    /\ pc = "submit"
    /\ nsub = Len(data)
    /\ nInitial' = Len(compOrder)
    /\ pc' = IF Len(data) = 0 THEN "exit" ELSE "iterate"
    /\ UNCHANGED <<data, lazy, fails, cache, reads, fetches, lastRead, nsub,
                   queue, threads, running, finished, fifo, nyield, result,
                   error, compOrder, calls, failOrder, callerProduced>>
    /\ UNCHANGED instvars

\* lines 50-52, one turn of the loop: as_completed yields a done future,
\* future.result() returns func's value or re-raises, result.extend(data)
\* appends the items (running the generator, when func made one); an
\* exception leaves the loop for the executor's __exit__
Iterate ==
    /\ pc = "iterate"
    /\ \E c \in Candidates :
        /\ finished' = IF c.early THEN [finished EXCEPT ![c.d] = @ - 1]
                       ELSE finished
        /\ fifo' = IF c.early THEN fifo ELSE RemoveAt(fifo, YieldIndex(fifo))
        /\ nyield' = nyield + 1
        /\ IF ResultRaises(c.d)
           THEN /\ error' = c.d
                /\ pc' = "exit"
                /\ UNCHANGED <<result, failOrder, callerProduced>>
           ELSE /\ result' = Extend(result, c.d)
                /\ callerProduced' = IF lazy THEN callerProduced \cup {c.d}
                                     ELSE callerProduced
                /\ IF ExtendRaises(c.d)
                   THEN /\ error' = c.d
                        /\ failOrder' = Append(failOrder, c.d)
                        /\ pc' = "exit"
                   ELSE /\ pc' = IF nyield + 1 = Len(data) THEN "exit"
                                 ELSE "iterate"
                        /\ UNCHANGED <<error, failOrder>>
    /\ UNCHANGED <<data, lazy, fails, cache, reads, fetches, lastRead, nsub,
                   queue, threads, running, compOrder, nInitial, calls>>
    /\ UNCHANGED instvars

\* cached_property: the value func returned is stored in the instance; an
\* exception stores nothing
CacheAlways(ok, value) == [set |-> TRUE, value |-> value]
CacheAfter(ok, value) == IF ok THEN [set |-> TRUE, value |-> value] ELSE cache

\* lines 48 and 53, then line 43 and the cached_property: the with block
\* ends once shutdown(wait=True) is over; _parallel returns result or lets
\* the exception through, and open_prs caches what was returned
Return ==
    /\ pc = "exit"
    /\ ShutdownDone
    /\ pc' = "idle"
    /\ cache' = CacheAfter(error = "none", result)
    /\ lastRead' = IF error = "none"
                   THEN [kind |-> "returned", value |-> result, err |-> "none"]
                   ELSE [kind |-> "raised", value |-> <<>>, err |-> error]
    /\ UNCHANGED <<data, lazy, fails, reads, fetches, nsub, queue, threads,
                   running, finished, fifo, nyield, result, error, compOrder,
                   nInitial, calls, failOrder, callerProduced>>
    /\ UNCHANGED instvars

\* cached_property.__get__: a stored value is returned as it is
CacheIgnored == FALSE
CacheHit == cache.set

\* a read of github.open_prs (OpenPRs.run reads it twice): the cached list,
\* or a call of _parallel(self.repo_names, _get_pulls) with fresh locals
ReadOpenPrs ==
    /\ pc = "idle"
    /\ reads < MaxReads
    /\ reads' = reads + 1
    /\ IF CacheHit
       THEN /\ lastRead' = [kind |-> "returned", value |-> cache.value,
                            err |-> "none"]
            /\ UNCHANGED <<fetches, pc, nsub, queue, threads, running,
                           finished, fifo, nyield, result, error, compOrder,
                           nInitial, calls, failOrder, callerProduced>>
       ELSE /\ fetches' = fetches + 1
            /\ pc' = "submit"
            /\ nsub' = 0 /\ queue' = <<>> /\ threads' = 0 /\ running' = Zero
            /\ finished' = Zero /\ fifo' = <<>> /\ nyield' = 0
            /\ result' = <<>> /\ error' = "none" /\ compOrder' = <<>>
            /\ nInitial' = 0 /\ calls' = Zero /\ failOrder' = <<>>
            /\ callerProduced' = {}
            /\ UNCHANGED lastRead
    /\ UNCHANGED <<data, lazy, fails, cache>>
    /\ UNCHANGED instvars

\* ---------------------------------------------------- install_uv_python
\* py: the interpreters in the order of the dict and of its lists
Versions ==
    << [impl |-> "cpython", version |-> <<3, 8, 20>>],
       [impl |-> "cpython", version |-> <<3, 9, 21>>],
       [impl |-> "cpython", version |-> <<3, 10, 16>>],
       [impl |-> "cpython", version |-> <<3, 11, 11>>],
       [impl |-> "cpython", version |-> <<3, 12, 9>>],
       [impl |-> "cpython", version |-> <<3, 13, 2>>],
       [impl |-> "pypy", version |-> <<3, 8, 16>>],
       [impl |-> "pypy", version |-> <<3, 9, 19>>],
       [impl |-> "pypy", version |-> <<3, 10, 14>>] >>

\* minor = ".".join(version.split(".")[:2])
Minor(version) == SubSeq(version, 1, 2)

\* dest / f"{'python' if impl == 'cpython' else 'pypy'}{minor}"
Dest(v) == [prefix |-> IF v.impl = "cpython" THEN "python" ELSE "pypy",
            minor |-> Minor(v.version)]

\* dest / "python"
PythonDest == [prefix |-> "python", minor |-> <<>>]

\* py['cpython'][-1]
LastCpython ==
    LET idx == {i \in DOMAIN Versions : Versions[i].impl = "cpython"}
    IN Versions[CHOOSE i \in idx : \A j \in idx : j <= i]

\* the commands of run() in program order: per interpreter the install and
\* its link, then the link of the unversioned python
Cmds ==
    [i \in 1..(2 * Len(Versions) + 1) |->
        IF i = 2 * Len(Versions) + 1
        THEN [op |-> "link", target |-> LastCpython, dest |-> PythonDest]
        ELSE IF i % 2 = 1
             THEN [op |-> "install", target |-> Versions[(i + 1) \div 2],
                   dest |-> PythonDest]
             ELSE [op |-> "link", target |-> Versions[i \div 2],
                   dest |-> Dest(Versions[i \div 2])]]

Dests == {Cmds[i].dest : i \in {j \in DOMAIN Cmds : Cmds[j].op = "link"}}
Absent == [impl |-> "absent", version |-> <<>>]
Stale == [impl |-> "stale", version |-> <<>>]

\* check_call raises CalledProcessError when the command exits non-zero
CheckCallIgnores(ok) == FALSE
CheckCallRaises(ok) == ~ok

InstallIdle ==
    /\ istep = 1 /\ ifailed = FALSE /\ links = [d \in Dests |-> Absent]
    /\ installed = {} /\ executed = {}

\* run() starts on a machine whose dest directory may hold links of an
\* earlier set-up
InitInstall ==
    /\ istep = 1 /\ ifailed = FALSE /\ installed = {} /\ executed = {}
    /\ links \in [Dests -> {Absent, Stale}]

GHIdle ==
    /\ data = <<>> /\ lazy = FALSE /\ fails = {}
    /\ cache = Unset /\ reads = 0 /\ fetches = 0 /\ lastRead = NoRead
    /\ pc = "idle"
    /\ CallLocals0

\* lines 16-33, one check_call of run(): the command succeeds (uv installs
\* the interpreter, ln -s -f replaces the link) or exits non-zero, and then
\* check_call raises and run() ends
RunCmd ==
    /\ ~ifailed
    /\ istep <= Len(Cmds)
    /\ \E ok \in BOOLEAN :
        IF CheckCallRaises(ok)
        THEN /\ ifailed' = TRUE
             /\ UNCHANGED <<istep, links, installed, executed>>
        ELSE /\ istep' = istep + 1
             /\ ifailed' = FALSE
             /\ IF ok
                THEN /\ executed' = executed \cup {istep}
                     /\ installed' = IF Cmds[istep].op = "install"
                                     THEN installed \cup {Cmds[istep].target}
                                     ELSE installed
                     /\ links' = IF Cmds[istep].op = "link"
                                 THEN [links EXCEPT ![Cmds[istep].dest] =
                                                        Cmds[istep].target]
                                 ELSE links
                ELSE UNCHANGED <<executed, installed, links>>
    /\ UNCHANGED ghvars

InitI == GHIdle /\ InitInstall
NextI == RunCmd
SpecInstall == InitI /\ [][NextI]_vars

Init == InitGH /\ InstallIdle

Next ==
    \/ ReadOpenPrs
    \/ Submit
    \/ Start
    \/ \E d \in Ids : Finish(d)
    \/ AsCompleted
    \/ Iterate
    \/ Return

Spec == Init /\ [][Next]_vars

\* ================================================================ claims
\* a call of _parallel has handed control back to its caller
HandedBack == pc = "idle" /\ fetches > 0
\* ... by returning its list
Returned == HandedBack /\ error = "none"
\* the futures (positions of data) whose map_fn fails
FailingTasks == {i \in DOMAIN data : data[i] \in fails}

RECURSIVE SumCounts(_)
SumCounts(s) == IF s = <<>> THEN 0 ELSE ItemCount(Head(s)) + SumCounts(Tail(s))

\* C1: when map_fn fails for no identifier, _parallel returns a list whose
\* multiset of items is the multiset union of map_fn(i) over the identifiers
\* (one per occurrence): its length is the sum of the item counts, and it is
\* empty when there is no identifier or every map_fn(i) is empty.
C1_NoLossNoDuplication ==
    (HandedBack /\ FailingTasks = {}) =>
        /\ lastRead.kind = "returned"
        /\ SameBag(lastRead.value, Flatten(data))
        /\ Len(lastRead.value) = SumCounts(data)
        /\ (\A i \in DOMAIN data : ItemCount(data[i]) = 0) => lastRead.value = <<>>

C1_Witness ==
    /\ HandedBack /\ FailingTasks = {} /\ fetches = 1
    /\ data = <<"a", "b", "a">>
    /\ lastRead.kind = "returned" /\ Len(lastRead.value) = 5

\* C2: when map_fn fails for exactly one identifier among several, no read
\* ever returns a list and nothing is cached; the call ends by raising that
\* failure, and the items collected from the other tasks are not handed over.
C2_SingleFailureRaises ==
    (Len(data) >= 2 /\ Cardinality(FailingTasks) = 1) =>
        /\ lastRead.kind # "returned"
        /\ ~cache.set
        /\ HandedBack => /\ lastRead.kind = "raised"
                         /\ lastRead.err \in fails
                         /\ lastRead.value = <<>>

C2_Witness ==
    /\ HandedBack /\ Len(data) >= 2 /\ Cardinality(FailingTasks) = 1
    /\ lastRead.kind = "raised" /\ Len(result) > 0

\* C3: at most 12 invocations of map_fn are in flight on the pool at any
\* time, however many identifiers were submitted.
C3_AtMostTwelveInFlight == Total(running) <= 12

C3_Witness ==
    /\ Len(data) > MaxWorkers /\ Total(running) = MaxWorkers /\ queue # <<>>

\* C4: when _parallel hands control back (returning or raising), every task
\* submitted for the call has run and finished: none is queued, none is
\* running, none was cancelled, each identifier's func ran once per occurrence.
C4_AllTasksFinishedAtHandBack ==
    HandedBack =>
        /\ queue = <<>>
        /\ Total(running) = 0
        /\ nsub = Len(data)
        /\ Len(compOrder) = Len(data)
        /\ \A d \in Ids : calls[d] = CountIn(data, d)

C4_Witness ==
    /\ HandedBack /\ error # "none" /\ Len(data) > MaxWorkers
    /\ nInitial = 0 /\ nyield = 1 /\ Len(compOrder) = Len(data)

\* C5 as stated: when map_fn fails for two or more identifiers, the error
\* raised is that of the task that failed first in time.
C5_FirstFailureInTime ==
    (HandedBack /\ Cardinality(FailingTasks) >= 2) =>
        /\ error # "none"
        /\ error = Head(failOrder)

\* C5 amended: with two or more failing identifiers the call raises exactly
\* one error, that of a failing identifier: the one that failed first in
\* time, or else one whose task had already failed when as_completed() was
\* called; map_fn is invoked once per occurrence of an identifier.
C5_FirstFailureYielded ==
    (HandedBack /\ Cardinality(FailingTasks) >= 2) =>
        /\ error \in fails
        /\ lastRead = [kind |-> "raised", value |-> <<>>, err |-> error]
        /\ \/ error = Head(failOrder)
           \/ /\ ~lazy
              /\ \E p \in 1..nInitial : compOrder[p] = error
              /\ \E p \in 1..nInitial : compOrder[p] = Head(failOrder)
        /\ \A d \in Ids : calls[d] = CountIn(data, d)

C5_Witness ==
    /\ HandedBack /\ Cardinality(FailingTasks) >= 2
    /\ nInitial = 0 /\ Len(failOrder) >= 2
    /\ error = failOrder[1] /\ failOrder[2] # error

\* C6 as stated: the returned list holds the items in the completion order
\* of the tasks.
C6_CompletionOrder == Returned => lastRead.value = Flatten(compOrder)

\* C6 amended: the tasks that complete after as_completed() was called
\* contribute their items in completion order, after the items of all the
\* tasks that were already done by then; the latter come in no fixed order.
C6_CompletionOrderAfterStart ==
    Returned =>
        LET early == Flatten(SubSeq(compOrder, 1, nInitial))
            late == Flatten(SubSeq(compOrder, nInitial + 1, Len(compOrder)))
        IN /\ Len(lastRead.value) = Len(early) + Len(late)
           /\ SameBag(SubSeq(lastRead.value, 1, Len(early)), early)
           /\ SubSeq(lastRead.value, Len(early) + 1, Len(lastRead.value)) = late

\* the same input can come back in another order than it was given in
C6_Witness ==
    /\ Returned /\ fetches = 1 /\ data = <<"a", "b">> /\ nInitial = 0
    /\ lastRead.value = Items("b") \o Items("a")

\* C7: the returned list is the concatenation of the whole per-identifier
\* sequences in some permutation of the identifiers: one contiguous block per
\* identifier, in the order map_fn produced the items.
C7_ContiguousBlocks ==
    Returned =>
        \E s \in [1..Len(data) -> Range(data)] :
            SameBag(s, data) /\ lastRead.value = Flatten(s)

C7_Witness ==
    /\ Returned /\ fetches = 1 /\ data = <<"a", "b", "a">>
    /\ lastRead.value = Flatten(<<"a", "a", "b">>)

\* C8: with a generator-style map_fn the items of an identifier are produced
\* (and a failure raised) on the worker, never in the calling thread.
C8_WorkerConsumesGenerator == lazy => callerProduced = {}

\* C9: once a fetch has succeeded no other fetch starts and every read
\* returns the cached list unchanged; a failed fetch caches nothing, the
\* read raises, and a later read starts a new fetch.
C9_CachedOnce ==
    /\ [](/\ lastRead.kind = "raised" => ~cache.set
          /\ cache.set => /\ lastRead.kind = "returned"
                          /\ lastRead.value = cache.value)
    /\ [][/\ cache.set => (cache' = cache /\ fetches' = fetches /\ pc' = pc)
          /\ (reads' # reads /\ ~cache.set) =>
                (fetches' = fetches + 1 /\ pc' = "submit")
          /\ (reads' # reads /\ cache.set) => lastRead'.value = cache.value
         ]_vars

C9_Witness ==
    /\ reads = 2 /\ fetches = 1 /\ cache.set /\ Len(cache.value) = 3
    /\ lastRead.value = cache.value

\* a read after a failed fetch has fetched again (and failed again)
C9_WitnessRefetch == reads = 2 /\ fetches = 2 /\ lastRead.kind = "raised"

\* C10: a version's link exists only when its install succeeded; after a
\* failed command nothing more runs; the unversioned python link to cpython
\* 3.13.2 is made last, when every install and every other link succeeded.
C10_SequentialStopAtFailure ==
    /\ [](/\ executed = 1..(istep - 1)
          /\ \A i \in DOMAIN Versions :
                links[Dest(Versions[i])] = Versions[i] =>
                    Versions[i] \in installed
          /\ links[PythonDest] \notin {Absent, Stale} =>
                /\ links[PythonDest] =
                       [impl |-> "cpython", version |-> <<3, 13, 2>>]
                /\ \A i \in DOMAIN Versions :
                      /\ Versions[i] \in installed
                      /\ links[Dest(Versions[i])] = Versions[i])
    /\ [][ifailed => UNCHANGED instvars]_vars

C10_Witness ==
    /\ links[PythonDest] = [impl |-> "cpython", version |-> <<3, 13, 2>>]
    /\ istep = 20 /\ ~ifailed

====
